---- MODULE Spec2Model ----
(***************************************************************************)
(* Model of src/src/api.ts: the response-generation router of alex-chat.   *)
(*                                                                         *)
(* One generateResponse call is modelled from its invocation to the        *)
(* settlement of its promise.  An action is one synchronous segment of the *)
(* JavaScript code: it starts where a pending await (fetch, response.text, *)
(* reader.read) settles and runs, through every catch handler and loop     *)
(* iteration the code executes without suspending, to the next await or to *)
(* the settlement of the call.                                             *)
(*                                                                         *)
(* Abstractions:                                                           *)
(*  - an error message is a record of the features the code tests: its     *)
(*    kind (the literal prefix the code builds), the HTTP/stream status    *)
(*    printed in it, and whether the provider-supplied part of the text    *)
(*    contains a retryable keyword, the substring 'abort', or 'not         *)
(*    supported'/'FAILED_PRECONDITION';                                    *)
(*  - the text deltas of a stream are distinct tokens [att, k] (attempt    *)
(*    number, position): the code never inspects a delta beyond its        *)
(*    truthiness;                                                          *)
(*  - one reader.read() delivers one complete SSE record;                  *)
(*  - the caller always passes a signal and aborts it without a custom     *)
(*    reason, so the rejection of a pending fetch / read is a DOMException *)
(*    whose message contains 'abort'; the callbacks never fire the signal. *)
(***************************************************************************)
EXTENDS Integers, Sequences, FiniteSets, TLC

\* Bounds of the model.
MaxKeys == 2        \* at most this many entries in config.googleKeys
MaxORModels == 2    \* at most this many entries in config.openrouterModels
MaxParts == 2       \* at most this many SSE records consumed in one call
MaxStreams == 2     \* at most this many 2xx responses (opened streams) in one call

VARIABLES
  input,      \* arguments of generateResponse: model id and the AppConfig fields read
  aborted,    \* signal.aborted
  pc,         \* "init" | "fetch" | "read" | "done"
  route,      \* caller of the provider call in flight: "direct" | "auto" | "search" | "fallback"
  cur,        \* the provider call in flight: [prov, model, key]
  auto,       \* callAutoMode locals: [i, models, allErrors]
  gem,        \* callGeminiStreaming locals: [model, keys, i, errors, fullText, images, gotContent]
  srch,       \* callGeminiWithSearch locals: [mi, keys, ki, fullText, sources, gotContent]
  fb,         \* callFallbackSearch locals: [i]
  oai,        \* callOpenRouter / callSambaNovaStreaming locals: [fullText]
  parts,      \* SSE records consumed so far in this call (bounded by MaxParts)
  streams,    \* 2xx responses received so far in this call (bounded by MaxStreams)
  trace,      \* everything the call did that its environment can observe, in order
  outcome     \* settlement of the promise: [status, text, images, err]

vars == <<input, aborted, pc, route, cur, auto, gem, srch, fb, oai, parts, streams, trace, outcome>>

-----------------------------------------------------------------------------
\* AUTO_MODES and the model-name predicates

AUTO_MODES ==
  [ k \in {"auto-gemini-flash", "auto-gemini-pro", "auto-openrouter", "auto-samba", "auto-search"} |->
      CASE k = "auto-gemini-flash" ->
             [provider |-> "google",
              models |-> <<"gemini-flash-latest", "gemini-3-flash-preview",
                           "gemini-2.5-flash", "gemini-2.0-flash">>]
        [] k = "auto-gemini-pro" ->
             [provider |-> "google", models |-> <<"gemini-3-pro-preview", "gemini-2.5-pro">>]
        [] k = "auto-openrouter" -> [provider |-> "openrouter", models |-> <<>>]
        [] k = "auto-samba" ->
             [provider |-> "sambanova",
              models |-> <<"DeepSeek-R1-0528", "DeepSeek-V3.1", "DeepSeek-V3-0324", "gpt-oss-120b">>]
        [] OTHER -> [provider |-> "google", models |-> <<>>] ]

\* Property names an object literal inherits from Object.prototype ('constructor',
\* 'toString', 'valueOf', 'hasOwnProperty', '__proto__', ...), which the `in` operator
\* finds in AUTO_MODES as it finds the table's own keys: one of them.
InheritedKeys == {"constructor"}

\* model in AUTO_MODES
isAutoMode(model) == model \in DOMAIN AUTO_MODES \cup InheritedKeys

\* AUTO_MODES[model].provider; the value of an inherited property has no such field
ProviderOf(model) ==
  IF model \in DOMAIN AUTO_MODES THEN AUTO_MODES[model].provider ELSE "undefined"

\* Model ids that start with 'gemini' / match /^(DeepSeek-|gpt-oss-)/ among the ids of the model.
GeminiPrefixed == {"gemini-2.0-flash", "gemini-2.5-flash", "gemini-flash-latest",
                   "gemini-3-flash-preview", "gemini-3-pro-preview", "gemini-2.5-pro"}
SambaPatterned == {"DeepSeek-R1-0528", "DeepSeek-V3.1", "DeepSeek-V3-0324", "gpt-oss-120b"}

isGoogleModel(model) ==
  IF isAutoMode(model) THEN ProviderOf(model) = "google"
  ELSE model \in GeminiPrefixed

isSambaModel(model) ==
  IF isAutoMode(model) THEN ProviderOf(model) = "sambanova"
  ELSE model \in SambaPatterned

\* config.openrouterModels: free-form ids
ORModelIds == <<"vendor/m1:free", "vendor/m2:free", "vendor/m3:free">>

\* The model ids generateResponse is called with: one for every branch of the
\* router, and one id that is no key of the table but an inherited property name.
\* (auto-gemini-flash runs the code auto-gemini-pro runs, over four models.)
ModelIds == {"auto-search", "auto-gemini-pro", "auto-openrouter", "auto-samba",
             "gemini-2.0-flash", "DeepSeek-V3.1", "vendor/m1:free"} \cup InheritedKeys

searchModels == <<"gemini-2.5-flash", "gemini-2.0-flash">>
fallbackSambaModels == <<"DeepSeek-V3.1", "DeepSeek-V3-0324", "gpt-oss-120b">>

-----------------------------------------------------------------------------
\* Error messages

Err(kind, status, retry, abort, ns) ==
  [kind |-> kind, status |-> status, retry |-> retry, abort |-> abort, ns |-> ns,
   n |-> 0, list |-> <<>>]

NoErr == Err("", 0, FALSE, FALSE, FALSE)
Plain(kind) == Err(kind, 0, FALSE, FALSE, FALSE)

\* What a provider can put after the prefix the code builds: an HTTP status and a
\* body (cut to 200 characters) with or without the keywords the code looks for.
Overloaded    == [status |-> 503, retry |-> FALSE, abort |-> FALSE, ns |-> FALSE]
BadRequest    == [status |-> 400, retry |-> FALSE, abort |-> FALSE, ns |-> FALSE]
BadGateway    == [status |-> 502, retry |-> FALSE, abort |-> FALSE, ns |-> FALSE]
QuotaExceeded == [status |-> 400, retry |-> TRUE,  abort |-> FALSE, ns |-> FALSE]
UpstreamAbort == [status |-> 503, retry |-> FALSE, abort |-> TRUE,  ns |-> FALSE]
NotSupported  == [status |-> 400, retry |-> FALSE, abort |-> FALSE, ns |-> TRUE]
\* a body that has 'not supported' / 'FAILED_PRECONDITION' only after its first 200
\* characters: errorText contains it, errorText.slice(0, 200) does not
NotSupportedCut == [status |-> 403, retry |-> FALSE, abort |-> FALSE, ns |-> FALSE]

\* errorText.includes('not supported') || errorText.includes('FAILED_PRECONDITION'), line 620
BodyNotSupported(t) == t.ns \/ t = NotSupportedCut

\* One text of every class the code of the provider call can tell apart:
\* callGeminiStreaming tests 'abort' and the retryable pattern, callGeminiWithSearch
\* 'abort' and 'not supported', callFallbackSearch 'abort', and callAutoMode 'abort' and
\* the retryable pattern.
ProviderTexts(prov, caller) ==
  CASE prov = "gemini" -> {Overloaded, BadRequest, BadGateway, QuotaExceeded, UpstreamAbort}
    [] prov = "search" -> {BadRequest, UpstreamAbort, NotSupported, NotSupportedCut}
    [] caller = "fallback" -> {BadRequest, UpstreamAbort}
    [] OTHER -> {Overloaded, BadRequest, BadGateway, UpstreamAbort}

FromProvider(kind, t) == Err(kind, t.status, t.retry, t.abort, t.ns)

\* The rejection of a fetch / read whose signal has fired (DOMException AbortError).
AbortError == Plain("AbortError")
\* A fetch / read that fails in the network layer (TypeError).
NetworkError == Plain("TypeError")
\* The same with a reason that matches the retryable pattern ('... unavailable').
NetworkUnavailable == Err("TypeError", 0, TRUE, FALSE, FALSE)

\* The rejection reasons of a read the code of the provider call can tell apart: only
\* key rotation and Auto Mode look for the retryable pattern.
NetworkErrors(prov, caller) ==
  IF prov = "gemini" \/ caller = "auto" THEN {NetworkError, NetworkUnavailable}
  ELSE {NetworkError}

\* The TypeError of spreading undefined ('autoConfig.models is not iterable').
NotIterable == Plain("not iterable")

\* errMsg.includes('abort')
includesAbort(e) == e.kind \in {"AbortError", "Request aborted", "aborted"} \/ e.abort

\* errMsg.includes('not supported') || errMsg.includes('FAILED_PRECONDITION')
includesNotSupported(e) == e.ns

RetryableStatuses == {429, 500, 503}

\* A classification that takes every 5xx status for retryable.
isRetryableError_Any5xx(e) ==
  \/ e.status \in RetryableStatuses \cup (500..599)
  \/ e.retry
  \/ e.kind = "All keys failed"

isRetryableError(e) ==
  \/ e.status \in RetryableStatuses
  \/ e.retry
  \/ e.kind = "All keys failed"

-----------------------------------------------------------------------------
\* Observable events

\* A piece of text: a streamed delta (or image) identified by attempt and position,
\* or a piece of the sources block callSearchMode appends.
Piece(t, att, k, url, label) == [t |-> t, att |-> att, k |-> k, url |-> url, label |-> label]
NoTok == Piece("", 0, 0, "", "")
Delta(att, k) == Piece("delta", att, k, "", "")

Ev(ev, kind, model, key, i, n, err, tok) ==
  [ev |-> ev, kind |-> kind, model |-> model, key |-> key, i |-> i, n |-> n,
   err |-> err, tok |-> tok]

\* addLog(...)
Log(kind, model, key, i, n, err) == Ev("log", kind, model, key, i, n, err, NoTok)
\* a request that left for a provider: key at position i of the shuffled keys,
\* model at position n of the list of models being tried (0: no list)
Req(prov, model, key, i, n) == Ev("req", prov, model, key, i, n, NoErr, NoTok)
\* what the provider (or the signal) did to the pending fetch / read
Resp(kind, err, tok) == Ev("resp", kind, "", 0, 0, 0, err, tok)
\* onChunk(text)
Chunk(tok) == Ev("chunk", "", "", 0, 0, 0, NoErr, tok)
\* onResetContent()
Reset == Ev("reset", "", "", 0, 0, 0, NoErr, NoTok)

Requests(tr) == SelectSeq(tr, LAMBDA e : e.ev = "req")
LogsOf(tr, kind) == SelectSeq(tr, LAMBDA e : e.ev = "log" /\ e.kind = kind)

\* The state as one record, so that a synchronous segment is a function of it.
State ==
  [input |-> input, aborted |-> aborted, pc |-> pc, route |-> route, cur |-> cur,
   auto |-> auto, gem |-> gem, srch |-> srch, fb |-> fb, oai |-> oai,
   parts |-> parts, streams |-> streams, trace |-> trace, outcome |-> outcome]

Becomes(s) ==
  \E r \in {s} :
    /\ input' = r.input
    /\ aborted' = r.aborted
    /\ pc' = r.pc
    /\ route' = r.route
    /\ cur' = r.cur
    /\ auto' = r.auto
    /\ gem' = r.gem
    /\ srch' = r.srch
    /\ fb' = r.fb
    /\ oai' = r.oai
    /\ parts' = r.parts
    /\ streams' = r.streams
    /\ trace' = r.trace
    /\ outcome' = r.outcome

Emit(s, e) == [s EXCEPT !.trace = Append(@, e)]

\* The promise of generateResponse settles.
Resolve(s, text, images) ==
  [s EXCEPT !.pc = "done",
            !.outcome = [status |-> "resolved", text |-> text, images |-> images, err |-> NoErr]]

Reject(s, e) ==
  [s EXCEPT !.pc = "done",
            !.outcome = [status |-> "rejected", text |-> <<>>, images |-> <<>>, err |-> e]]

\* The token of the next text delta / image of the attempt in flight.
NextTok(s) == Delta(Len(Requests(s.trace)), s.parts + 1)

\* [...xs].sort(() => Math.random() - 0.5): any order of the n entries
Shuffles(n) ==
  { p \in [1..n -> 1..n] : \A a, b \in 1..n : a # b => p[a] # p[b] }

-----------------------------------------------------------------------------
\* Synchronous segments.  p is the order the next shuffle of config.googleKeys
\* produces, should the segment reach one.

RECURSIVE GeminiLoop(_, _), AutoLoop(_, _), FallbackLoop(_, _), SearchLoop(_, _)

\* A catch that moves to the next candidate after every failure that is not a cancellation.
AutoCatch_AlwaysNext(s, e, p) ==
  IF includesAbort(e) THEN Reject(s, e)
  ELSE AutoLoop([Emit([s EXCEPT !.auto.allErrors =
                               Append(@, [model |-> s.auto.models[s.auto.i], err |-> e])],
                      Log("auto_next", s.auto.models[s.auto.i], 0, s.auto.i, 0, NoErr))
                   EXCEPT !.auto.i = @ + 1], p)

\* A catch that asks the candidate that has failed again.
AutoCatch_RetrySame(s, e, p) ==
  IF includesAbort(e) THEN Reject(s, e)
  ELSE LET m == s.auto.models[s.auto.i]
           s1 == [s EXCEPT !.auto.allErrors = Append(@, [model |-> m, err |-> e])]
       IN IF ~isRetryableError(e)
          THEN Reject(Emit(s1, Log("auto_nonretry", m, 0, s.auto.i, 0, e)), e)
          ELSE AutoLoop(Emit(s1, Log("auto_next", m, 0, s.auto.i, 0, NoErr)), p)

\* callAutoMode, lines 923-936: the catch around one candidate
AutoCatch(s, e, p) ==
  IF includesAbort(e) THEN Reject(s, e)
  ELSE LET m == s.auto.models[s.auto.i]
           s1 == [s EXCEPT !.auto.allErrors = Append(@, [model |-> m, err |-> e])]
       IN IF ~isRetryableError(e)
          THEN Reject(Emit(s1, Log("auto_nonretry", m, 0, s.auto.i, 0, e)), e)
          ELSE AutoLoop([Emit(s1, Log("auto_next", m, 0, s.auto.i, 0, NoErr))
                           EXCEPT !.auto.i = @ + 1], p)

\* callFallbackSearch, lines 764-768: the catch around one SambaNova attempt
FallbackCatch(s, e, p) ==
  IF includesAbort(e) THEN Reject(s, e)
  ELSE FallbackLoop([s EXCEPT !.fb.i = @ + 1], p)

\* A throw that leaves callGeminiStreaming reaches its caller.
GeminiThrow(s, e, p) ==
  IF s.route = "auto" THEN AutoCatch(s, e, p) ELSE Reject(s, e)

\* A throw that leaves callOpenRouter / callSambaNovaStreaming reaches its caller.
OaiThrow(s, prov, e, p) ==
  CASE s.route = "auto" -> AutoCatch(s, e, p)
    [] s.route = "fallback" /\ prov = "sambanova" -> FallbackCatch(s, e, p)
    [] OTHER -> Reject(s, e)

\* A catch that moves to the next key after every failure that is not a cancellation.
GeminiCatch_AlwaysRotates(s, e, p) ==
  IF includesAbort(e) THEN GeminiThrow(s, e, p)
  ELSE GeminiLoop([Emit([s EXCEPT !.gem.errors = Append(@, e)],
                        Log("key_failed", s.gem.model, s.gem.keys[s.gem.i], s.gem.i,
                            Len(s.gem.keys), e))
                     EXCEPT !.gem.i = @ + 1], p)

\* callGeminiStreaming, lines 401-410: the catch around one key
GeminiCatch(s, e, p) ==
  IF includesAbort(e) THEN GeminiThrow(s, e, p)
  ELSE LET s1 == Emit([s EXCEPT !.gem.errors = Append(@, e)],
                      Log("key_failed", s.gem.model, s.gem.keys[s.gem.i], s.gem.i,
                          Len(s.gem.keys), e))
       IN IF ~isRetryableError(e) THEN GeminiThrow(s1, e, p)
          ELSE GeminiLoop([s1 EXCEPT !.gem.i = @ + 1], p)

\* A loop over the keys that does not look at the signal.
GeminiLoop_NoSignalCheck(s, p) ==
  LET n == Len(s.gem.keys) IN
  IF s.gem.i > n
  THEN GeminiThrow(Emit(s, Log("keys_exhausted", s.gem.model, 0, 0, n, NoErr)),
                   [Plain("All keys failed") EXCEPT !.n = n], p)
  ELSE LET key == s.gem.keys[s.gem.i]
           s1 == Emit(s, Log("key_attempt", s.gem.model, key, s.gem.i, n, NoErr))
       IN [Emit(s1, Req("gemini", s.gem.model, key, s.gem.i,
                        IF s.route = "auto" THEN s.auto.i ELSE 0))
             EXCEPT !.pc = "fetch",
                    !.cur = [prov |-> "gemini", model |-> s.gem.model, key |-> key]]

\* callGeminiStreaming, lines 296-322 and 413-414: the loop over shuffledKeys up to the fetch
GeminiLoop(s, p) ==
  LET n == Len(s.gem.keys) IN
  IF s.gem.i > n
  THEN GeminiThrow(Emit(s, Log("keys_exhausted", s.gem.model, 0, 0, n, NoErr)),
                   [Plain("All keys failed") EXCEPT !.n = n], p)
  ELSE IF s.aborted THEN GeminiThrow(s, Plain("Request aborted"), p)
  ELSE LET key == s.gem.keys[s.gem.i]
           s1 == Emit(s, Log("key_attempt", s.gem.model, key, s.gem.i, n, NoErr))
       IN [Emit(s1, Req("gemini", s.gem.model, key, s.gem.i,
                        IF s.route = "auto" THEN s.auto.i ELSE 0))
             EXCEPT !.pc = "fetch",
                    !.cur = [prov |-> "gemini", model |-> s.gem.model, key |-> key]]

\* callGeminiStreaming, lines 287-294
callGeminiStreaming(s, model, p) ==
  IF s.input.googleKeys = 0 THEN GeminiThrow(s, Plain("No Google API keys configured"), p)
  ELSE GeminiLoop(
         Emit([s EXCEPT !.gem = [model |-> model, keys |-> p, i |-> 1, errors |-> <<>>,
                                 fullText |-> <<>>, images |-> <<>>, gotContent |-> FALSE]],
              Log("gemini_start", model, 0, 0, Len(p), NoErr)), p)

\* 'No OpenRouter API key. ...' (line 431), 'No SambaNova API key. ...' (line 497)
NoKeyError(prov) ==
  IF prov = "sambanova" THEN Plain("No SambaNova API key") ELSE Plain("No OpenRouter API key")

\* the log entry '-> OpenRouter [...]' (line 434), '-> SambaNova [...]' (line 500)
OaiStart(prov) == IF prov = "sambanova" THEN "sambanova_start" ELSE "openrouter_start"

\* if (!apiKey) of callOpenRouter (line 430) and callSambaNovaStreaming (line 496)
HasKey(s, prov) ==
  IF prov = "sambanova" THEN s.input.sambaKey ELSE s.input.openrouterKey

\* A caller that sends its request whether or not it has a key.
callOpenAIStyle_NoKeyCheck(s, prov, model, p) ==
  LET s1 == Emit(s, Log(OaiStart(prov), model, 0, 0, 0, NoErr))
  IN IF s1.aborted THEN OaiThrow(s1, prov, AbortError, p)
     ELSE [Emit(s1, Req(prov, model, 0, 0,
                        CASE s.route = "auto" -> s.auto.i
                          [] s.route = "fallback" /\ prov = "sambanova" -> s.fb.i
                          [] OTHER -> 0))
             EXCEPT !.pc = "fetch",
                    !.cur = [prov |-> prov, model |-> model, key |-> 0],
                    !.oai = [fullText |-> <<>>]]

\* callOpenRouter, lines 430-446, and callSambaNovaStreaming, lines 496-514: up to the
\* fetch.  A fetch whose signal has already fired rejects without sending anything.
callOpenAIStyle(s, prov, model, p) ==
  IF ~HasKey(s, prov) THEN OaiThrow(s, prov, NoKeyError(prov), p)
  ELSE LET s1 == Emit(s, Log(OaiStart(prov), model, 0, 0, 0, NoErr))
       IN IF s1.aborted THEN OaiThrow(s1, prov, AbortError, p)
          ELSE [Emit(s1, Req(prov, model, 0, 0,
                             CASE s.route = "auto" -> s.auto.i
                               [] s.route = "fallback" /\ prov = "sambanova" -> s.fb.i
                               [] OTHER -> 0))
                  EXCEPT !.pc = "fetch",
                         !.cur = [prov |-> prov, model |-> model, key |-> 0],
                         !.oai = [fullText |-> <<>>]]

\* callFallbackSearch, lines 772-779
FallbackOpenRouter(s, p) ==
  IF s.input.openrouterKey /\ s.input.openrouterModels > 0
  THEN callOpenAIStyle(Emit(s, Log("fallback_openrouter", ORModelIds[1], 0, 0, 0, NoErr)),
                       "openrouter", ORModelIds[1], p)
  ELSE Reject(s, Plain("AI Search requires keys"))

\* callFallbackSearch, lines 759-769: the loop over the SambaNova models
FallbackLoop(s, p) ==
  IF s.fb.i > Len(fallbackSambaModels) THEN FallbackOpenRouter(s, p)
  ELSE IF s.aborted THEN Reject(s, Plain("aborted"))
  ELSE callOpenAIStyle(
         Emit(s, Log("fallback_samba", fallbackSambaModels[s.fb.i], 0, s.fb.i, 0, NoErr)),
         "sambanova", fallbackSambaModels[s.fb.i], p)

\* callFallbackSearch, lines 753-780
callFallbackSearch(s, p) ==
  LET s1 == [s EXCEPT !.route = "fallback", !.fb = [i |-> 1]]
  IN IF s.input.sambaKey THEN FallbackLoop(s1, p) ELSE FallbackOpenRouter(s1, p)

\* callSearchMode, lines 856-859
FallbackPhase(s, p) ==
  callFallbackSearch(Emit(Emit(s, Log("search_no_primary", "", 0, 0, 0, NoErr)), Reset), p)

\* callSearchMode, lines 844-853: the catch around the primary path
SearchModeCatch(s, e, p) ==
  IF includesAbort(e) THEN Reject(s, e)
  ELSE IF includesNotSupported(e) THEN Reject(s, e)
  ELSE FallbackPhase(Emit(s, Log("search_failed_fallback", "", 0, 0, 0, e)), p)

\* A catch that handles a cancellation like any other failure of the attempt.
SearchCatch_NoAbortCheck(s, e, p) ==
  IF includesNotSupported(e) THEN SearchModeCatch(s, e, p)
  ELSE SearchLoop([Emit(s, Log("search_attempt_failed", searchModels[s.srch.mi],
                                s.srch.keys[s.srch.ki], s.srch.ki, 0, e))
                     EXCEPT !.srch.ki = @ + 1], p)

\* callGeminiWithSearch, lines 726-735: the catch around one (model, key) attempt
SearchCatch(s, e, p) ==
  IF includesAbort(e) THEN SearchModeCatch(s, e, p)
  ELSE IF includesNotSupported(e) THEN SearchModeCatch(s, e, p)
  ELSE SearchLoop([Emit(s, Log("search_attempt_failed", searchModels[s.srch.mi],
                                s.srch.keys[s.srch.ki], s.srch.ki, 0, e))
                     EXCEPT !.srch.ki = @ + 1], p)

\* Loops that send every request with the first of the shuffled keys.
SearchLoop_SameKey(s, p) ==
  IF s.srch.mi > Len(searchModels) THEN SearchModeCatch(s, Plain("Google Search failed"), p)
  ELSE IF s.srch.ki > Len(s.srch.keys)
  THEN SearchLoop([s EXCEPT !.srch.mi = @ + 1, !.srch.ki = 1], p)
  ELSE IF s.aborted THEN SearchModeCatch(s, Plain("Request aborted"), p)
  ELSE LET m == searchModels[s.srch.mi]
           key == s.srch.keys[1]
           s1 == Emit(s, Log("search_attempt", m, key, s.srch.ki, 0, NoErr))
       IN [Emit(s1, Req("search", m, key, s.srch.ki, s.srch.mi))
             EXCEPT !.pc = "fetch",
                    !.cur = [prov |-> "search", model |-> m, key |-> key],
                    !.srch.fullText = <<>>, !.srch.sources = <<>>, !.srch.chunks = <<>>,
                    !.srch.gotContent = FALSE]

\* callGeminiWithSearch, lines 590-615 and 739: the two loops up to the fetch
SearchLoop(s, p) ==
  IF s.srch.mi > Len(searchModels) THEN SearchModeCatch(s, Plain("Google Search failed"), p)
  ELSE IF s.srch.ki > Len(s.srch.keys)
  THEN SearchLoop([s EXCEPT !.srch.mi = @ + 1, !.srch.ki = 1], p)
  ELSE IF s.aborted THEN SearchModeCatch(s, Plain("Request aborted"), p)
  ELSE LET m == searchModels[s.srch.mi]
           key == s.srch.keys[s.srch.ki]
           s1 == Emit(s, Log("search_attempt", m, key, s.srch.ki, 0, NoErr))
       IN [Emit(s1, Req("search", m, key, s.srch.ki, s.srch.mi))
             EXCEPT !.pc = "fetch",
                    !.cur = [prov |-> "search", model |-> m, key |-> key],
                    !.srch.fullText = <<>>, !.srch.sources = <<>>, !.srch.chunks = <<>>,
                    !.srch.gotContent = FALSE]

\* callGeminiWithSearch, line 586
callGeminiWithSearch(s, p) ==
  SearchLoop([s EXCEPT !.route = "search",
                       !.srch = [mi |-> 1, keys |-> p, ki |-> 1, fullText |-> <<>>,
                                 sources |-> <<>>, chunks |-> <<>>, gotContent |-> FALSE]], p)

\* A Search Mode that enters the primary path whatever config.googleKeys holds.
callSearchMode_AlwaysPrimary(s, p) ==
  IF s.input.queryBlank THEN Reject(s, Plain("Empty query"))
  ELSE callGeminiWithSearch(Emit(Emit(s, Log("search_starting", "", 0, 0, 0, NoErr)), Reset), p)

\* callSearchMode, lines 795-829
callSearchMode(s, p) ==
  IF s.input.queryBlank THEN Reject(s, Plain("Empty query"))
  ELSE LET s1 == Emit(s, Log("search_starting", "", 0, 0, 0, NoErr))
       IN IF s.input.googleKeys > 0 THEN callGeminiWithSearch(Emit(s1, Reset), p)
          ELSE FallbackPhase(s1, p)

\* callAutoMode, lines 898-922 and 939-940: the loop over modelsToTry up to the provider call
AutoLoop(s, p) ==
  LET n == Len(s.auto.models) IN
  IF s.auto.i > n
  THEN Reject(Emit(s, Log("auto_all_failed", "", 0, 0, n, NoErr)),
              [Plain("Auto mode: all models failed") EXCEPT !.n = n, !.list = s.auto.allErrors])
  ELSE IF s.aborted THEN Reject(s, Plain("Request aborted"))
  ELSE LET m == s.auto.models[s.auto.i]
           s1 == Emit(Emit(s, Log("auto_try", m, 0, s.auto.i, n, NoErr)), Reset)
           prov == AUTO_MODES[s.input.model].provider
       IN IF prov = "google" THEN callGeminiStreaming(s1, m, p)
          ELSE callOpenAIStyle(s1, prov, m, p)

\* callAutoMode, lines 875-896.  q is the order the shuffle of config.openrouterModels produces.
callAutoMode(s, autoKey, p, q) ==
  LET prov == ProviderOf(autoKey)
      modelsToTry == IF prov = "openrouter" THEN [j \in 1..Len(q) |-> ORModelIds[q[j]]]
                     ELSE AUTO_MODES[autoKey].models
  IN IF autoKey \notin DOMAIN AUTO_MODES
     THEN Reject(s, NotIterable)   \* [...autoConfig.models] with models undefined, line 891
     ELSE IF prov = "openrouter" /\ Len(modelsToTry) = 0
     THEN Reject(s, Plain("No OpenRouter models configured"))
     ELSE AutoLoop(Emit([s EXCEPT !.route = "auto",
                                  !.auto = [i |-> 1, models |-> modelsToTry, allErrors |-> <<>>]],
                        Log("auto_start", autoKey, 0, 0, Len(modelsToTry), NoErr)), p)

\* generateResponse, lines 956-970
generateResponse(s, p, q) ==
  LET model == s.input.model IN
  IF model = "auto-search" THEN callSearchMode(s, p)
  ELSE IF isAutoMode(model) THEN callAutoMode(s, model, p, q)
  ELSE IF isGoogleModel(model) THEN callGeminiStreaming(s, model, p)
  ELSE IF isSambaModel(model) THEN callOpenAIStyle(s, "sambanova", model, p)
  ELSE callOpenAIStyle(s, "openrouter", model, p)

-----------------------------------------------------------------------------
\* The stream-decode loops, one SSE record at a time

\* A 2xx response after which the text of the keys before is kept.
GeminiOpen_KeepsText(s) == [Emit(s, Reset) EXCEPT !.pc = "read"]

\* callGeminiStreaming, lines 329-336: a 2xx response
GeminiOpen(s) ==
  [Emit(s, Reset) EXCEPT !.pc = "read", !.gem.fullText = <<>>, !.gem.images = <<>>,
                         !.gem.gotContent = FALSE]

\* callGeminiStreaming, lines 369-373: a part with text
GeminiText(s) ==
  [Emit(s, Chunk(NextTok(s)))
     EXCEPT !.gem.fullText = Append(@, NextTok(s)), !.gem.gotContent = TRUE,
            !.parts = @ + 1]

\* callGeminiStreaming, lines 374-377: a part with inlineData
GeminiImage(s) ==
  [s EXCEPT !.gem.images = Append(@, NextTok(s)), !.gem.gotContent = TRUE, !.parts = @ + 1]

\* An in-stream error that discards what the key has delivered.
GeminiStreamError_AlwaysThrows(s, e, p) == GeminiCatch(s, e, p)

\* An in-stream error that returns what the key has delivered, even when that is nothing.
GeminiStreamError_AlwaysPartial(s, e, p) ==
  Resolve(Emit(s, Log("stream_partial", s.gem.model, 0, 0, 0, NoErr)),
          s.gem.fullText, s.gem.images)

\* callGeminiStreaming, lines 384-388: a 'Stream error' / 'Prompt blocked' thrown by the
\* record's own try block
GeminiStreamError(s, e, p) ==
  IF s.gem.gotContent
  THEN Resolve(Emit(s, Log("stream_partial", s.gem.model, 0, 0, 0, NoErr)),
               s.gem.fullText, s.gem.images)
  ELSE GeminiCatch(s, e, p)

\* callGeminiStreaming, lines 394-399: the stream has ended
GeminiDone(s, p) ==
  IF ~s.gem.gotContent /\ s.gem.fullText = <<>> /\ Len(s.gem.images) = 0
  THEN GeminiCatch(s, Plain("Empty response from model"), p)
  ELSE Resolve(Emit(s, Log("gemini_ok", s.gem.model, s.gem.keys[s.gem.i], 0,
                           Len(s.gem.fullText), NoErr)),
               s.gem.fullText, s.gem.images)

\* callGeminiWithSearch, lines 662-666: a part with text
SearchText(s) ==
  [Emit(s, Chunk(NextTok(s)))
     EXCEPT !.srch.fullText = Append(@, NextTok(s)), !.srch.gotContent = TRUE,
            !.parts = @ + 1]

\* A grounding chunk that is collected whether or not its uri is already there.
SearchGrounding_NoDedupe(s, url, title) ==
  [s EXCEPT !.srch.sources = IF url # "" THEN Append(@, [title |-> title, url |-> url]) ELSE @,
            !.srch.chunks = Append(@, [title |-> title, url |-> url])]

\* callGeminiWithSearch, lines 672-681: one grounding chunk.  srch.chunks keeps the
\* chunks the attempt has received.
SearchGrounding(s, url, title) ==
  LET exists == \E j \in 1..Len(s.srch.sources) : s.srch.sources[j].url = url
  IN [s EXCEPT !.srch.sources = IF url # "" /\ ~exists
                                THEN Append(@, [title |-> title, url |-> url]) ELSE @,
               !.srch.chunks = Append(@, [title |-> title, url |-> url])]

RECURSIVE SearchGroundingChunks(_, _)
\* callGeminiWithSearch, lines 670-683: the groundingChunks of one record, in order
SearchGroundingChunks(s, chunks) ==
  IF chunks = <<>> THEN s
  ELSE SearchGroundingChunks(SearchGrounding(s, Head(chunks).url, Head(chunks).title),
                             Tail(chunks))

\* callGeminiWithSearch, lines 695-701: webSearchQueries
SearchQueries(s) ==
  [Emit(s, Log("search_queries", "", 0, 0, 0, NoErr)) EXCEPT !.parts = @ + 1]

\* new URL(s.url).hostname, line 836
Hostname(url) == IF url = "https://a.example/1" THEN "a.example" ELSE "b.example"

\* callSearchMode, lines 831-842: the sources block
SourcesBlock(sources) ==
  IF Len(sources) > 0
  THEN <<Piece("<!--SOURCES-->", 0, 0, "", "")>>
       \o [j \in 1..Len(sources) |->
             Piece("link", 0, 0, sources[j].url,
                   IF sources[j].title # "" THEN sources[j].title
                   ELSE Hostname(sources[j].url))]
       \o <<Piece("<!--/SOURCES-->", 0, 0, "", "")>>
  ELSE <<>>

\* callGeminiWithSearch returns to callSearchMode, lines 831-842
SearchReturn(s) == Resolve(s, s.srch.fullText \o SourcesBlock(s.srch.sources), <<>>)

\* callGeminiWithSearch, lines 703-709
SearchStreamError(s, e, p) ==
  IF s.srch.gotContent
  THEN SearchReturn(Emit(s, Log("stream_partial", s.cur.model, 0, 0, 0, NoErr)))
  ELSE SearchCatch(s, e, p)

\* callGeminiWithSearch, lines 714-724
SearchDone(s, p) ==
  IF ~s.srch.gotContent /\ s.srch.fullText = <<>>
  THEN SearchCatch(s, Plain("Empty search response"), p)
  ELSE SearchReturn(Emit(s, Log("search_ok", s.cur.model, s.cur.key, 0,
                                Len(s.srch.fullText), NoErr)))

\* callOpenRouter, line 471, and callSambaNovaStreaming, line 539
OaiText(s) ==
  [Emit(s, Chunk(NextTok(s))) EXCEPT !.oai.fullText = Append(@, NextTok(s)), !.parts = @ + 1]

\* An end of stream that takes an empty text for a failure, as callGeminiStreaming does.
OaiDone_EmptyFails(s) ==
  IF s.oai.fullText = <<>> THEN Reject(s, Plain("Empty response from model"))
  ELSE Resolve(Emit(s, Log("oai_ok", s.cur.model, 0, 0, Len(s.oai.fullText), NoErr)),
               s.oai.fullText, <<>>)

\* A return that hands the text back as the image list too.
OaiDone_TextAsImages(s) ==
  Resolve(Emit(s, Log("oai_ok", s.cur.model, 0, 0, Len(s.oai.fullText), NoErr)),
          s.oai.fullText, s.oai.fullText)

\* callOpenRouter, lines 477-478, and callSambaNovaStreaming, lines 545-546
OaiDone(s) ==
  Resolve(Emit(s, Log("oai_ok", s.cur.model, 0, 0, Len(s.oai.fullText), NoErr)),
          s.oai.fullText, <<>>)

\* An exception raised while the provider call in flight awaits (fetch, response.text,
\* reader.read) lands in the enclosing catch, or leaves the function that has none.
Raise(s, e, p) ==
  CASE s.cur.prov = "gemini" -> GeminiCatch(s, e, p)
    [] s.cur.prov = "search" -> SearchCatch(s, e, p)
    [] OTHER -> OaiThrow(s, s.cur.prov, e, p)

\* `HTTP ${status}: ...` (326, 621-623), `OpenRouter ${status}: ...` (450),
\* `SambaNova ${status}: ...` (518)
HttpErrorOf(s, t) ==
  CASE s.cur.prov = "gemini" -> FromProvider("HTTP", t)
    [] s.cur.prov = "search" ->
         Err("HTTP", IF BodyNotSupported(t) THEN 400 ELSE t.status, t.retry, t.abort, t.ns)
    [] s.cur.prov = "sambanova" -> FromProvider("SambaNova", t)
    [] OTHER -> FromProvider("OpenRouter", t)

-----------------------------------------------------------------------------
\* Initial states and actions

UsesGoogle(model) == isGoogleModel(model)
UsesSamba(model) == isSambaModel(model) \/ model = "auto-search"
UsesOpenRouter(model) == (~isGoogleModel(model) /\ ~isSambaModel(model)) \/ model = "auto-search"

Inputs ==
  { i \in [model : ModelIds, googleKeys : 0..MaxKeys, sambaKey : BOOLEAN,
           openrouterKey : BOOLEAN, openrouterModels : 0..MaxORModels,
           queryBlank : BOOLEAN, signal : {"idle", "fired"}] :
      /\ ~UsesGoogle(i.model) => i.googleKeys = 0
      /\ ~UsesSamba(i.model) => ~i.sambaKey
      /\ ~UsesOpenRouter(i.model) => ~i.openrouterKey
      /\ i.model \notin {"auto-openrouter", "auto-search"} => i.openrouterModels = 0
      /\ i.model = "auto-search" => i.openrouterModels <= 1   \* only openrouterModels[0] is read
      \* Every combination of fallback credentials is tried without Google keys; with
      \* one Google key, where the fallback starts from every way the primary path can
      \* fail, both providers are usable or neither is; with more Google keys neither is.
      /\ i.model = "auto-search" /\ i.googleKeys > 0 =>
            /\ i.openrouterKey = i.sambaKey
            /\ i.openrouterModels = (IF i.sambaKey THEN 1 ELSE 0)
            /\ i.googleKeys > 1 => ~i.sambaKey
      /\ i.model # "auto-search" => ~i.queryBlank }

Init ==
  /\ input \in Inputs
  /\ aborted = (input.signal = "fired")
  /\ pc = "init"
  /\ route = "direct"
  /\ cur = [prov |-> "", model |-> "", key |-> 0]
  /\ auto = [i |-> 0, models |-> <<>>, allErrors |-> <<>>]
  /\ gem = [model |-> "", keys |-> <<>>, i |-> 0, errors |-> <<>>, fullText |-> <<>>,
            images |-> <<>>, gotContent |-> FALSE]
  /\ srch = [mi |-> 0, keys |-> <<>>, ki |-> 0, fullText |-> <<>>, sources |-> <<>>,
             chunks |-> <<>>, gotContent |-> FALSE]
  /\ fb = [i |-> 0]
  /\ oai = [fullText |-> <<>>]
  /\ parts = 0
  /\ streams = 0
  /\ trace = <<>>
  /\ outcome = [status |-> "pending", text |-> <<>>, images |-> <<>>, err |-> NoErr]

KeyOrders == Shuffles(input.googleKeys)

\* generateResponse is called
Call ==
  /\ pc = "init"
  /\ \E p \in KeyOrders, q \in Shuffles(input.openrouterModels) :
       Becomes(generateResponse(State, p, q))

\* fetch resolves with response.ok
ResponseOk ==
  /\ pc = "fetch"
  /\ streams < MaxStreams
  /\ LET s == Emit(State, Resp("ok", NoErr, NoTok))
     IN Becomes([(IF cur.prov = "gemini" THEN GeminiOpen(s) ELSE [s EXCEPT !.pc = "read"])
                  EXCEPT !.streams = @ + 1])

\* fetch resolves with a non-2xx response, whose body is read
ResponseNotOk ==
  /\ pc = "fetch"
  /\ \E t \in ProviderTexts(cur.prov, route), p \in KeyOrders :
       LET e == HttpErrorOf(State, t)
           body == IF cur.prov = "search" /\ BodyNotSupported(t)
                   THEN Piece("not supported", 0, 0, "", "") ELSE NoTok
       IN Becomes(Raise(Emit(State, Resp("http", e, body)), e, p))

\* reader.read rejects in the network layer, with a reason that matches the retryable
\* pattern or with one that does not.  (A fetch that rejects there raises a message of
\* the same class as an error status for every test the code makes.)
NetworkFailure ==
  /\ pc = "read"
  /\ \E e \in NetworkErrors(cur.prov, route), p \in KeyOrders :
       Becomes(Raise(Emit(State, Resp("net", e, NoTok)), e, p))

\* the signal fires while the call awaits: the pending fetch / read rejects
Abort ==
  /\ pc \in {"fetch", "read"}
  /\ input.signal = "idle"
  /\ ~aborted
  /\ \E p \in KeyOrders :
       Becomes(Raise(Emit([State EXCEPT !.aborted = TRUE], Resp("abort", AbortError, NoTok)),
                     AbortError, p))

\* a record with a text part
RecordText ==
  /\ pc = "read"
  /\ parts < MaxParts
  /\ Becomes(CASE cur.prov = "gemini" -> GeminiText(State)
               [] cur.prov = "search" -> SearchText(State)
               [] OTHER -> OaiText(State))

\* a record with an inlineData part
RecordImage ==
  /\ pc = "read"
  /\ parts < MaxParts
  /\ cur.prov = "gemini"
  /\ Becomes(GeminiImage(Emit(State, Resp("image", NoErr, NextTok(State)))))

\* a line the loop skips: not 'data: ', '[DONE]', malformed JSON, no candidates / no delta
RecordSkipped ==
  /\ pc = "read"
  /\ parts < MaxParts
  /\ Becomes([State EXCEPT !.parts = @ + 1])

\* The groundingChunks[].web lists a record can carry: one chunk; two chunks that share
\* a uri; two uris, the first without a title; two uris in the other order.  (A chunk
\* without web.uri leaves sources as it is.)
GroundingChunks ==
  LET A == [url |-> "https://a.example/1", title |-> "A"]
      A2 == [url |-> "https://a.example/1", title |-> ""]
      B == [url |-> "https://b.example/2", title |-> "B"]
  IN { <<A>>, <<A, A2>>, <<A2, B>>, <<B, A>> }

\* a record with groundingMetadata.groundingChunks
RecordGrounding ==
  /\ pc = "read"
  /\ parts < MaxParts
  /\ cur.prov = "search"
  /\ \E chunks \in GroundingChunks :
       Becomes([SearchGroundingChunks(State, chunks) EXCEPT !.parts = @ + 1])

\* a record with groundingMetadata.webSearchQueries
RecordQueries ==
  /\ pc = "read"
  /\ parts < MaxParts
  /\ cur.prov = "search"
  /\ Becomes(SearchQueries(State))

\* a record with an error object
RecordError ==
  /\ pc = "read"
  /\ cur.prov \in {"gemini", "search"}
  /\ \E t \in ProviderTexts(cur.prov, route), p \in KeyOrders :
       LET e == IF cur.prov = "gemini" THEN FromProvider("Stream error", t)
                ELSE Err("Stream error", 0, t.retry, t.abort, t.ns)
           s == Emit(State, Resp("error", e, NoTok))
       IN Becomes(IF cur.prov = "gemini" THEN GeminiStreamError(s, e, p)
                  ELSE SearchStreamError(s, e, p))

\* a record without candidates and with promptFeedback.blockReason
RecordBlocked ==
  /\ pc = "read"
  /\ cur.prov = "gemini"
  /\ \E p \in KeyOrders :
       Becomes(GeminiStreamError(Emit(State, Resp("blocked", Plain("Prompt blocked"), NoTok)),
                                 Plain("Prompt blocked"), p))

\* reader.read() resolves with done
StreamDone ==
  /\ pc = "read"
  /\ \E p \in KeyOrders :
       LET s == Emit(State, Resp("done", NoErr, NoTok))
       IN Becomes(CASE cur.prov = "gemini" -> GeminiDone(s, p)
                    [] cur.prov = "search" -> SearchDone(s, p)
                    [] OTHER -> OaiDone(s))

Next ==
  \/ Call
  \/ ResponseOk
  \/ ResponseNotOk
  \/ NetworkFailure
  \/ Abort
  \/ RecordText
  \/ RecordImage
  \/ RecordSkipped
  \/ RecordGrounding
  \/ RecordQueries
  \/ RecordError
  \/ RecordBlocked
  \/ StreamDone

Spec == Init /\ [][Next]_vars

\* Every pending fetch / read settles, and a stream has an end: a step of the call that
\* can be taken is taken.
LiveSpec == Spec /\ WF_vars(Next)

-----------------------------------------------------------------------------
\* Reading the trace: attempts and how they ended

\* positions of the requests; an attempt is named by the position of its request
ReqIdx == { x \in 1..Len(trace) : trace[x].ev = "req" }
NumReq == Cardinality(ReqIdx)

\* position of the request after the one at x (past the end of the trace if none)
NextReq(x) ==
  LET later == { y \in ReqIdx : y > x }
  IN IF later = {} THEN Len(trace) + 1
     ELSE CHOOSE y \in later : \A z \in later : y <= z

IsLast(x) == NextReq(x) = Len(trace) + 1

\* where the provider (or the signal) ended the attempt at x
TermIdx(x) ==
  { y \in (x + 1)..(NextReq(x) - 1) :
      /\ trace[y].ev = "resp"
      /\ trace[y].kind \in {"http", "net", "abort", "error", "blocked", "done"} }

\* a text or image part reached the attempt at x before position y
ContentBefore(x, y) ==
  \E z \in (x + 1)..(y - 1) :
    \/ trace[z].ev = "chunk"
    \/ trace[z].ev = "resp" /\ trace[z].kind = "image"

\* the attempt at x failed at y: an error status, a broken or aborted connection, or,
\* with no content received, an in-stream error, a blocked prompt or (Gemini) the end
FailsAt(x, y) ==
  /\ y \in TermIdx(x)
  /\ \/ trace[y].kind \in {"http", "net", "abort"}
     \/ trace[y].kind \in {"error", "blocked"} /\ ~ContentBefore(x, y)
     \/ trace[y].kind = "done" /\ trace[x].kind \in {"gemini", "search"}
          /\ ~ContentBefore(x, y)

\* the error the failure at y raises in the attempt
FailureOf(x, y) ==
  IF trace[y].kind = "done"
  THEN (IF trace[x].kind = "gemini" THEN Plain("Empty response from model")
        ELSE Plain("Empty search response"))
  ELSE trace[y].err

SucceedsAt(x, y) == y \in TermIdx(x) /\ ~FailsAt(x, y)

Failed(x) == \E y \in TermIdx(x) : FailsAt(x, y)
FailedRetryably(x) == \E y \in TermIdx(x) : FailsAt(x, y) /\ isRetryableError(FailureOf(x, y))
Succeeded(x) == \E y \in TermIdx(x) : SucceedsAt(x, y)

\* the text deltas / images the attempt at x received, in order
ChunksOf(x) ==
  LET got == SelectSeq(SubSeq(trace, x + 1, NextReq(x) - 1), LAMBDA e : e.ev = "chunk")
  IN [k \in 1..Len(got) |-> got[k].tok]

ImagesOf(x) ==
  LET got == SelectSeq(SubSeq(trace, x + 1, NextReq(x) - 1),
                       LAMBDA e : e.ev = "resp" /\ e.kind = "image")
  IN [k \in 1..Len(got) |-> got[k].tok]

Done == pc = "done"
Resolved == pc = "done" /\ outcome.status = "resolved"
Rejected == pc = "done" /\ outcome.status = "rejected"
RejectedWith(e) == Rejected /\ outcome.err = e

\* log entries that report a provider failure
FailureLogs ==
  {"key_failed", "keys_exhausted", "auto_nonretry", "auto_next", "auto_all_failed",
   "search_attempt_failed", "search_failed_fallback"}

NoFailureLog == \A x \in 1..Len(trace) : ~(trace[x].ev = "log" /\ trace[x].kind \in FailureLogs)

IsCancellation(e) == e.kind \in {"AbortError", "Request aborted", "aborted"}

-----------------------------------------------------------------------------
\* Gemini key rotation

DirectGemini == isGoogleModel(input.model) /\ ~isAutoMode(input.model)

\* C1: in a direct Gemini call with N keys, a retryable failure of each of the first
\* keys is followed by an attempt on the next key while keys remain, and when the
\* attempt that follows retryable failures succeeds the call resolves with exactly that
\* attempt's output, every attempt having used another key and logged one 'Key ...x
\* (i/N)' entry.
C1_KeyRotation ==
  DirectGemini =>
    /\ (NumReq >= 1 /\ NumReq < input.googleKeys /\ \A x \in ReqIdx : FailedRetryably(x))
          => ~Done
    /\ \A x \in ReqIdx :
         (IsLast(x) /\ Succeeded(x) /\ \A w \in ReqIdx : w < x => FailedRetryably(w)) =>
            /\ Resolved
            /\ outcome.text = ChunksOf(x)
            /\ outcome.images = ImagesOf(x)
            /\ Len(LogsOf(trace, "key_attempt")) = NumReq
            /\ \A a, b \in ReqIdx : a # b => trace[a].key # trace[b].key

\* C2: a Gemini attempt that fails with an error outside the retryable pattern is the
\* last request of the call, which rejects with that error.
C2_NonRetryableStops ==
  \A x \in ReqIdx : trace[x].kind = "gemini" =>
    \A y \in TermIdx(x) :
      (FailsAt(x, y) /\ ~isRetryableError(FailureOf(x, y))) =>
         /\ IsLast(x)
         /\ y = Len(trace) \/ \A z \in (y + 1)..Len(trace) : trace[z].ev = "log"
         /\ RejectedWith(FailureOf(x, y))

\* the first of two keys answers HTTP 400 and the second key is never asked
C2_Witness ==
  /\ DirectGemini
  /\ input.googleKeys = 2
  /\ NumReq = 1
  /\ \E x \in ReqIdx : \E y \in TermIdx(x) :
       /\ FailsAt(x, y)
       /\ FailureOf(x, y) = FromProvider("HTTP", BadRequest)
       /\ RejectedWith(FailureOf(x, y))

\* C3: an in-stream error object or prompt-block record that arrives after a text or
\* image part of the same key ends the call: it resolves with the text deltas (and
\* images) the key delivered before the error, in order, and no other key is tried.
C3_PartialIsSuccess ==
  \A x \in ReqIdx : trace[x].kind = "gemini" =>
    \A y \in TermIdx(x) :
      (trace[y].kind \in {"error", "blocked"} /\ ContentBefore(x, y)) =>
         /\ IsLast(x)
         /\ Resolved
         /\ outcome.text = ChunksOf(x)
         /\ outcome.images = ImagesOf(x)

\* an error object after two text deltas, with a key left
C3_Witness ==
  /\ DirectGemini
  /\ input.googleKeys = 2
  /\ \E x \in ReqIdx : \E y \in TermIdx(x) :
       /\ trace[x].i = 1
       /\ trace[y].kind = "error"
       /\ Len(ChunksOf(x)) = 2
       /\ Resolved
       /\ outcome.text = ChunksOf(x)

\* C4: a Gemini stream that ends with no text and no images, on a key that is not the
\* last of the shuffled list, is followed by an attempt on the next key.
C4_EmptyRotates ==
  \A x \in ReqIdx : trace[x].kind = "gemini" =>
    \A y \in TermIdx(x) :
      (trace[y].kind = "done" /\ ~ContentBefore(x, y) /\ trace[x].i < input.googleKeys) =>
         /\ ~IsLast(x)
         /\ trace[NextReq(x)].i = trace[x].i + 1

\* C5 as stated, for errors whose text does not contain 'abort': an in-stream error
\* object before any content, on a key that is not the last, is followed by an attempt
\* on the next key.
C5_StreamErrorRotates ==
  \A x \in ReqIdx : trace[x].kind = "gemini" =>
    \A y \in TermIdx(x) :
      (trace[y].kind = "error" /\ ~ContentBefore(x, y) /\ ~includesAbort(trace[y].err)
         /\ trace[x].i < input.googleKeys) => ~IsLast(x)

\* C5, amended: an in-stream error object before any content never ends the call with a
\* result; the attempt fails with 'Stream error: ...', another request follows only if
\* that message matches the retryable pattern (to the next key of the shuffled list, or
\* after the last key to Auto Mode's next model), and a message that does not match it
\* rejects the call with that error and no further request.
C5_StreamErrorClassified ==
  \A x \in ReqIdx : trace[x].kind = "gemini" =>
    \A y \in TermIdx(x) :
      (trace[y].kind = "error" /\ ~ContentBefore(x, y)) =>
         /\ ~(IsLast(x) /\ Resolved)
         /\ trace[y].err.kind = "Stream error"
         /\ ~IsLast(x) =>
              /\ isRetryableError(trace[y].err)
              /\ IF trace[x].i < input.googleKeys
                 THEN /\ trace[NextReq(x)].i = trace[x].i + 1
                      /\ trace[NextReq(x)].model = trace[x].model
                 ELSE trace[NextReq(x)].n = trace[x].n + 1   \* Auto Mode's next model
         /\ ~isRetryableError(trace[y].err) => IsLast(x) /\ RejectedWith(trace[y].err)

\* a retryable error object before any content, and the second key is asked
C5_Witness ==
  /\ DirectGemini
  /\ \E x \in ReqIdx : \E y \in TermIdx(x) :
       /\ trace[y].kind = "error"
       /\ ~ContentBefore(x, y)
       /\ isRetryableError(trace[y].err)
       /\ ~IsLast(x)
       /\ trace[NextReq(x)].key # trace[x].key

-----------------------------------------------------------------------------
\* Order of the attempts

\* The providers in the order a call can reach them: the Google path first, then
\* Search Mode's SambaNova fallback, then its OpenRouter fallback.
Rank(prov) == CASE prov \in {"gemini", "search"} -> 1
                [] prov = "sambanova" -> 2
                [] OTHER -> 3

\* request a precedes request b in list order: (provider, model position, key position)
Before(a, b) ==
  \/ Rank(a.kind) < Rank(b.kind)
  \/ /\ Rank(a.kind) = Rank(b.kind)
     /\ \/ a.n < b.n
        \/ a.n = b.n /\ a.i < b.i

\* the attempt at x failed with an error that neither matches the retryable pattern
\* nor contains 'abort'
FailedFatally(x) ==
  \E y \in TermIdx(x) :
    /\ FailsAt(x, y)
    /\ ~isRetryableError(FailureOf(x, y))
    /\ ~includesAbort(FailureOf(x, y))

\* C6 as stated: a Google key whose attempt failed with a non-retryable error is used
\* by no later request of the call.
C6_NeverAgain ==
  \A a, b \in ReqIdx :
    (a < b /\ trace[a].key # 0 /\ FailedFatally(a)) => trace[b].key # trace[a].key

\* C6, amended: in a direct call and in Auto Mode an attempt that fails with a
\* non-retryable error is the last request of the call, which rejects; in every
\* strategy the requests follow list order (provider, model position, key position)
\* strictly, and no (provider, model, key) combination is requested twice.
C6_ListOrder ==
  /\ input.model # "auto-search" =>
       \A x \in ReqIdx : \A y \in TermIdx(x) :
         (FailsAt(x, y) /\ ~isRetryableError(FailureOf(x, y))) => IsLast(x) /\ Rejected
  /\ \A a, b \in ReqIdx : a < b =>
       /\ Before(trace[a], trace[b])
       /\ <<trace[a].kind, trace[a].model, trace[a].key>>
            # <<trace[b].kind, trace[b].model, trace[b].key>>

\* Search Mode: the key that failed with HTTP 400 on the first search model is asked
\* again with the second one, after the other key
C6_Witness ==
  /\ input.model = "auto-search"
  /\ input.googleKeys = 2
  /\ \E a, b \in ReqIdx :
       /\ a < b
       /\ FailedFatally(a)
       /\ trace[a].kind = "search" /\ trace[b].kind = "search"
       /\ trace[a].n = 1 /\ trace[b].n = 2
       /\ trace[a].key = trace[b].key

-----------------------------------------------------------------------------
\* Auto Mode

AutoOai == input.model \in {"auto-samba", "auto-openrouter"}

\* C7: in a SambaNova- or OpenRouter-backed Auto Mode with k candidates, a retryable
\* failure of each of the first candidates is followed by an attempt on the next one
\* while candidates remain, and when the attempt that follows retryable failures
\* succeeds the call resolves with that candidate's output after exactly one 'failed,
\* trying next...' entry per failed candidate.
C7_AutoRotation ==
  AutoOai =>
    /\ (NumReq >= 1 /\ NumReq < Len(auto.models) /\ \A x \in ReqIdx : FailedRetryably(x))
          => ~Done
    /\ \A x \in ReqIdx :
         (IsLast(x) /\ Succeeded(x) /\ \A w \in ReqIdx : w < x => FailedRetryably(w)) =>
            /\ Resolved
            /\ outcome.text = ChunksOf(x)
            /\ trace[x].n = NumReq
            /\ Len(LogsOf(trace, "auto_next")) = NumReq - 1

\* C8: in Auto Mode a candidate's failure that is non-retryable, or the rejection of
\* its pending request by the signal, ends the chain: no later candidate is announced
\* or requested and the call rejects with that error.
C8_AutoChainAborts ==
  route = "auto" =>
    /\ \A x \in ReqIdx : \A y \in TermIdx(x) :
         (FailsAt(x, y) /\ (~isRetryableError(FailureOf(x, y)) \/ trace[y].kind = "abort")) =>
            /\ IsLast(x)
            /\ \A z \in (y + 1)..Len(trace) :
                 ~(trace[z].ev = "log" /\ trace[z].kind = "auto_try")
            /\ RejectedWith(FailureOf(x, y))
    /\ \A z \in 1..Len(trace) :
         (trace[z].ev = "log" /\ trace[z].kind = "auto_nonretry") =>
            z = Len(trace) /\ RejectedWith(trace[z].err)

\* the first of the SambaNova candidates answers 400 and the other three are never asked
C8_Witness ==
  /\ input.model = "auto-samba"
  /\ NumReq = 1
  /\ Len(LogsOf(trace, "auto_try")) = 1
  /\ Len(auto.models) > 1
  /\ \E x \in ReqIdx : \E y \in TermIdx(x) :
       /\ trace[y].kind = "http"
       /\ ~isRetryableError(trace[y].err)
       /\ RejectedWith(trace[y].err)

-----------------------------------------------------------------------------
\* Cancellation

\* With this input a configuration error is thrown before the signal is looked at.
ConfigErrorFirst(i) ==
  CASE i.model = "auto-search" ->
         \/ i.queryBlank
         \/ i.googleKeys = 0 /\ ~i.sambaKey /\ ~(i.openrouterKey /\ i.openrouterModels > 0)
    [] i.model \in InheritedKeys -> TRUE
    [] i.model = "auto-openrouter" -> i.openrouterModels = 0
    [] isAutoMode(i.model) -> FALSE
    [] isGoogleModel(i.model) -> i.googleKeys = 0
    [] isSambaModel(i.model) -> ~i.sambaKey
    [] OTHER -> ~i.openrouterKey

ConfigErrorOf(i) ==
  CASE i.model = "auto-search" ->
         IF i.queryBlank THEN "Empty query" ELSE "AI Search requires keys"
    [] i.model \in InheritedKeys -> "not iterable"
    [] i.model = "auto-openrouter" -> "No OpenRouter models configured"
    [] isGoogleModel(i.model) -> "No Google API keys configured"
    [] isSambaModel(i.model) -> "No SambaNova API key"
    [] OTHER -> "No OpenRouter API key"

\* C9 as stated: when the signal has fired before the call, the call rejects with a
\* cancellation error, without a request and without a failure log entry.
C9_AlwaysCancellation ==
  (input.signal = "fired" /\ Done) =>
     /\ Rejected
     /\ IsCancellation(outcome.err)
     /\ NumReq = 0
     /\ NoFailureLog

\* C9, amended: when the signal has fired before the call, the call settles at once,
\* rejects, issues no request and logs no failure; the error is a cancellation unless
\* the input makes the code throw a configuration error before it first looks at the
\* signal (blank Search query, Search Mode without any usable credentials, no OpenRouter
\* models for the OpenRouter Auto Mode, no key for a direct provider call) or, for a
\* model id that names an inherited property of the auto-mode table, the TypeError of
\* callAutoMode, and then it is that error.
C9_PreFiredSignal ==
  input.signal = "fired" =>
     /\ pc \in {"init", "done"}
     /\ NumReq = 0
     /\ NoFailureLog
     /\ Done =>
          /\ Rejected
          /\ IF ConfigErrorFirst(input)
             THEN outcome.err = Plain(ConfigErrorOf(input))
             ELSE IsCancellation(outcome.err)

\* a direct Gemini call with keys and a fired signal: 'Request aborted' at the first key
C9_Witness ==
  /\ input.signal = "fired"
  /\ DirectGemini
  /\ input.googleKeys > 0
  /\ RejectedWith(Plain("Request aborted"))
  /\ Len(LogsOf(trace, "gemini_start")) = 1

-----------------------------------------------------------------------------
\* Callbacks

\* positions of the text deltas passed to onChunk
ChunkIdx == { x \in 1..Len(trace) : trace[x].ev = "chunk" }

\* C11: two text deltas that come from different attempts of the call are separated by
\* an onResetContent invocation, so that the deltas received since the last reset come
\* from a single attempt.
C11_ResetBetweenAttempts ==
  \A a, b \in ChunkIdx :
    (a < b /\ trace[a].tok.att # trace[b].tok.att) =>
       \E r \in (a + 1)..(b - 1) : trace[r].ev = "reset"

-----------------------------------------------------------------------------
\* Search Mode

\* the call has resolved through the primary (Google Search) path
SearchResolved == Resolved /\ input.model = "auto-search" /\ route = "search"

\* the '- [title](url)' lines of the returned text
LinksOf(text) == SelectSeq(text, LAMBDA t : t.t = "link")

\* position in srch.chunks of the first grounding chunk with this url
FirstChunk(url) ==
  CHOOSE j \in 1..Len(srch.chunks) :
    /\ srch.chunks[j].url = url
    /\ \A k \in 1..(j - 1) : srch.chunks[k].url # url

\* C12: when Search Mode resolves through its primary path, the appended block has
\* exactly one line for every URL among the grounding chunks the successful attempt
\* received, in the order of first appearance and with the first title (or the host
\* name), and whenever a chunk was received the returned text ends with
\* '<!--/SOURCES-->'; without any chunk the text carries no block.
C12_SourcesDeduplicated ==
  SearchResolved =>
    LET links == LinksOf(outcome.text)
        n == Len(outcome.text)
    IN /\ \A a, b \in 1..Len(links) : a # b => links[a].url # links[b].url
       /\ { links[j].url : j \in 1..Len(links) }
            = { srch.chunks[j].url : j \in 1..Len(srch.chunks) }
       /\ \A a, b \in 1..Len(links) :
            a < b => FirstChunk(links[a].url) < FirstChunk(links[b].url)
       /\ \A a \in 1..Len(links) :
            LET c == srch.chunks[FirstChunk(links[a].url)]
            IN links[a].label = (IF c.title # "" THEN c.title ELSE Hostname(c.url))
       /\ srch.chunks # <<>> =>
            /\ outcome.text[n].t = "<!--/SOURCES-->"
            /\ outcome.text = srch.fullText \o <<Piece("<!--SOURCES-->", 0, 0, "", "")>>
                                \o links \o <<Piece("<!--/SOURCES-->", 0, 0, "", "")>>
       /\ srch.chunks = <<>> => outcome.text = srch.fullText

\* two grounding chunks with the same uri, one line in the block
C12_Witness ==
  /\ SearchResolved
  /\ Len(srch.chunks) = 2
  /\ srch.chunks[1].url = srch.chunks[2].url
  /\ Len(LinksOf(outcome.text)) = 1
  /\ outcome.text[Len(outcome.text)].t = "<!--/SOURCES-->"


\* Search Mode without Google credentials and with a SambaNova credential
NoGoogleSamba ==
  /\ input.model = "auto-search"
  /\ input.googleKeys = 0
  /\ input.sambaKey
  /\ ~input.queryBlank

\* log entries of the Google paths
GoogleLogs ==
  {"search_attempt", "search_attempt_failed", "search_ok", "search_queries",
   "search_failed_fallback", "gemini_start", "key_attempt", "key_failed", "keys_exhausted"}

BodyNotSupportedAt(y) ==
  trace[y].ev = "resp" /\ trace[y].kind = "http" /\ trace[y].tok.t = "not supported"

\* C14: in Search Mode's primary path, an answer classified as 'not supported' /
\* FAILED_PRECONDITION ends the call at once: nothing follows it (no log entry, no
\* further key or model, no fallback) and the call rejects with its 'HTTP 400: ...' error.
C14_NotSupportedPropagates ==
  \A x \in ReqIdx : trace[x].kind = "search" =>
    \A y \in TermIdx(x) :
      BodyNotSupportedAt(y) =>
        /\ y = Len(trace)
        /\ RejectedWith(trace[y].err)


\* Search Mode with at least one Google credential
WithGoogleSearch == input.model = "auto-search" /\ input.googleKeys > 0 /\ ~input.queryBlank

SearchReqs == { x \in ReqIdx : trace[x].kind = "search" }

\* the (search model, key) combinations of the primary path
PrimaryCombos == Len(searchModels) * input.googleKeys

\* where the primary path is given up for the fallback phase
FallbackStarts ==
  { z \in 1..Len(trace) : trace[z].ev = "log" /\ trace[z].kind = "search_failed_fallback" }

\* the attempt at x failed, and neither by the signal nor with a 'not supported' answer
OrdinaryFailure(x) ==
  \E y \in TermIdx(x) :
    /\ FailsAt(x, y)
    /\ trace[y].kind # "abort"
    /\ ~BodyNotSupportedAt(y)
    /\ ~FailureOf(x, y).ns

\* C15: in Search Mode with a Google credential the fallback phase starts only after
\* every (search model, key) combination has been requested and has failed otherwise
\* than by cancellation or 'not supported', no fallback provider is asked before that,
\* and once all combinations have failed that way the fallback phase has started.
C15_FallbackAfterAll ==
  WithGoogleSearch =>
    /\ \A z \in FallbackStarts :
         /\ Cardinality({ x \in SearchReqs : x < z }) = PrimaryCombos
         /\ \A x \in SearchReqs : x < z /\ OrdinaryFailure(x)
    /\ \A x \in ReqIdx \ SearchReqs : \E z \in FallbackStarts : z < x
    /\ (Cardinality(SearchReqs) = PrimaryCombos /\ \A x \in SearchReqs : OrdinaryFailure(x))
          => FallbackStarts # {}


\* C16: Search Mode rejects with its configuration error ('AI Search requires ... keys')
\* only when neither fallback provider has usable credentials: the SambaNova key is
\* empty and OpenRouter has no key or no configured model.
C16_ConfigErrorOnlyWithoutCreds ==
  RejectedWith(Plain("AI Search requires keys")) =>
     /\ ~input.sambaKey
     /\ ~(input.openrouterKey /\ input.openrouterModels > 0)

-----------------------------------------------------------------------------
\* Error classification

\* the statuses the taxonomy calls transient: rate limit and every 5xx
TransientStatuses == {429} \cup (500..599)

\* a rate limit, overload, quota, capacity, unavailable or 5xx failure
Transient(e) == e.status \in TransientStatuses \/ e.retry

\* after the attempt at x a key of the rotation or a model of the Auto Mode list is left
CandidatesRemain(x) ==
  \/ trace[x].kind = "gemini" /\ trace[x].i < input.googleKeys
  \/ route = "auto" /\ trace[x].n < Len(auto.models)

\* C17 as stated, for errors whose text does not contain 'abort': in Gemini key
\* rotation and in Auto Mode, an attempt that fails with a rate limit, overload, quota,
\* capacity, unavailable or HTTP 5xx error is followed by an attempt on the next key or
\* model while one is left.
C17_TransientRotates ==
  input.model # "auto-search" =>
    \A x \in ReqIdx : \A y \in TermIdx(x) :
      (FailsAt(x, y) /\ trace[y].kind \in {"http", "error"} /\ Transient(FailureOf(x, y))
         /\ ~includesAbort(FailureOf(x, y)) /\ CandidatesRemain(x)) => ~IsLast(x)

\* the statuses and keywords of the retryable pattern, and the 'All N keys failed' text
PatternStatuses == {429, 500, 503}
MatchesPattern(e) == e.status \in PatternStatuses \/ e.retry \/ e.kind = "All keys failed"

\* C17, amended: in Gemini key rotation and in Auto Mode a provider failure is
\* transient only if its message matches the retryable pattern (status 429, 500 or 503,
\* or a keyword); a failure whose message does not match it - a 502 or 504 without a
\* keyword included - is the last request of the call, which rejects with that error,
\* so that another key or model is tried only after a failure that matches the pattern.
C17_PatternDecides ==
  input.model # "auto-search" =>
    \A x \in ReqIdx : \A y \in TermIdx(x) :
      (FailsAt(x, y) /\ trace[y].kind \in {"http", "error"}) =>
         /\ ~MatchesPattern(FailureOf(x, y)) => IsLast(x) /\ RejectedWith(FailureOf(x, y))
         /\ ~IsLast(x) => MatchesPattern(FailureOf(x, y))

\* the first of two keys answers 502 Bad Gateway and the second key is never asked
C17_Witness ==
  /\ DirectGemini
  /\ input.googleKeys = 2
  /\ NumReq = 1
  /\ RejectedWith(FromProvider("HTTP", BadGateway))

-----------------------------------------------------------------------------
\* Logging

\* C18: in every fallback chain, an attempt that has failed and is followed by another
\* attempt has a failure log entry between its failure and the next request.
C18_FailureLogged ==
  \A x \in ReqIdx : \A y \in TermIdx(x) :
    (FailsAt(x, y) /\ ~IsLast(x)) =>
       \E z \in (y + 1)..(NextReq(x) - 1) :
         trace[z].ev = "log" /\ trace[z].kind \in FailureLogs

-----------------------------------------------------------------------------
\* Terminal errors

\* the position of the k-th request of the call
KthReq(k) == CHOOSE x \in ReqIdx : Cardinality({ w \in ReqIdx : w <= x }) = k

\* the error the attempt at x failed with
FailureAt(x) == FailureOf(x, CHOOSE y \in TermIdx(x) : FailsAt(x, y))

\* the failures of the first n attempts, in attempt order
FailuresOfFirst(n) == [k \in 1..n |-> FailureAt(KthReq(k))]

\* C19: the error raised when a direct Gemini call has exhausted its keys, and the
\* error raised when Search Mode's primary loop has exhausted its (model, key)
\* combinations, list the failure reason of every attempt.
C19_AggregateListsReasons ==
  /\ (DirectGemini /\ Rejected /\ outcome.err.kind = "All keys failed") =>
        outcome.err.list = FailuresOfFirst(input.googleKeys)
  /\ \A z \in FallbackStarts :
        trace[z].err.kind = "Google Search failed" =>
           trace[z].err.list = FailuresOfFirst(PrimaryCombos)


\* the call has rejected with Auto Mode's terminal error
AutoAllFailed == Rejected /\ outcome.err.kind = "Auto mode: all models failed"

\* C20: in a SambaNova- or OpenRouter-backed Auto Mode, once every candidate has been
\* requested and has failed with a retryable error the call has rejected with the
\* terminal error; and the terminal error of any Auto Mode names the number of
\* candidates and lists one entry per candidate, in attempt order, with the candidate's
\* model and its error (for the two providers: the error its request failed with).
C20_AutoAggregate ==
  /\ (AutoOai /\ NumReq = Len(auto.models) /\ NumReq >= 1
        /\ \A x \in ReqIdx : FailedRetryably(x)) => AutoAllFailed
  /\ AutoAllFailed =>
       LET list == outcome.err.list
           k == Len(auto.models)
       IN /\ outcome.err.n = k
          /\ Len(list) = k
          /\ \A j \in 1..k :
               /\ list[j].model = auto.models[j]
               /\ isRetryableError(list[j].err)
               /\ AutoOai => list[j].err = FailureAt(KthReq(j))

-----------------------------------------------------------------------------
\* Results

\* the request whose stream produced the result
LastReq == CHOOSE x \in ReqIdx : IsLast(x)

\* C21: every result has an image list: a finite sequence, empty when the result comes
\* from OpenRouter, SambaNova or Search Mode (its primary path included), and the
\* inlineData parts of the answering key's stream, in order, when it comes from Gemini.
C21_ImagesList ==
  Resolved =>
    /\ NumReq >= 1
    /\ DOMAIN outcome.images = 1..Len(outcome.images)
    /\ trace[LastReq].kind \in {"openrouter", "sambanova", "search"} => outcome.images = <<>>
    /\ input.model = "auto-search" => outcome.images = <<>>
    /\ trace[LastReq].kind = "gemini" => outcome.images = ImagesOf(LastReq)

\* an OpenRouter candidate of Auto Mode answers with two deltas and no image
C21_Witness ==
  /\ Resolved
  /\ input.model = "auto-openrouter"
  /\ trace[LastReq].kind = "openrouter"
  /\ Len(outcome.text) = 2
  /\ outcome.images = <<>>

-----------------------------------------------------------------------------
\* Missing credentials

\* a direct call or an Auto Mode whose provider has no credential: an empty Google key
\* list, an empty SambaNova key, an empty OpenRouter key (with models to try)
MissingCredential ==
  /\ input.model # "auto-search"
  /\ input.model \notin InheritedKeys
  /\ input.model = "auto-openrouter" => input.openrouterModels > 0
  /\ CASE isGoogleModel(input.model) -> input.googleKeys = 0
       [] isSambaModel(input.model) -> ~input.sambaKey
       [] OTHER -> ~input.openrouterKey

\* the configuration error of the provider caller
CredentialError ==
  IF isGoogleModel(input.model) THEN Plain("No Google API keys configured")
  ELSE IF isSambaModel(input.model) THEN NoKeyError("sambanova")
  ELSE NoKeyError("openrouter")

\* C22: with a missing credential no request is ever issued and the call settles in its
\* first step; where the provider caller is entered (always in a direct call, in Auto
\* Mode unless the signal has fired before the call) the call rejects with the caller's
\* configuration error, which does not match the retryable pattern, and in Auto Mode
\* only the first candidate is announced: one 'non-retryable error' entry, no 'trying
\* next' entry, one collected error.
C22_MissingCredentialAborts ==
  MissingCredential =>
    /\ ~isRetryableError(CredentialError)
    /\ NumReq = 0
    /\ pc \in {"init", "done"}
    /\ (Done /\ (~isAutoMode(input.model) \/ input.signal = "idle")) =>
          /\ RejectedWith(CredentialError)
          /\ isAutoMode(input.model) =>
               /\ Len(LogsOf(trace, "auto_try")) = 1
               /\ Len(LogsOf(trace, "auto_nonretry")) = 1
               /\ trace[Len(trace)] = Log("auto_nonretry", auto.models[1], 0, 1, 0, CredentialError)
               /\ Len(LogsOf(trace, "auto_next")) = 0
               /\ auto.i = 1
               /\ auto.allErrors = <<[model |-> auto.models[1], err |-> CredentialError]>>
    /\ (Done /\ isAutoMode(input.model) /\ input.signal = "fired") =>
          /\ RejectedWith(Plain("Request aborted"))
          /\ Len(LogsOf(trace, "auto_try")) = 0

\* the SambaNova Auto Mode without a SambaNova key: the first of four candidates ends the chain
C22_Witness ==
  /\ input.model = "auto-samba"
  /\ ~input.sambaKey
  /\ input.signal = "idle"
  /\ Len(auto.models) = 4
  /\ Len(LogsOf(trace, "auto_try")) = 1
  /\ RejectedWith(Plain("No SambaNova API key"))

-----------------------------------------------------------------------------
\* The router

\* the strategy that has been entered, read from the first thing the call did: the
\* opening log entry of the strategy or, where it threw before logging anything, its error
EnteredStrategy ==
  LET first == IF trace # <<>> THEN trace[1].kind ELSE outcome.err.kind
  IN CASE first \in {"search_starting", "Empty query"} -> "search"
       [] first \in {"auto_start", "No OpenRouter models configured", "not iterable"} -> "auto"
       [] first \in {"gemini_start", "No Google API keys configured"} -> "gemini"
       [] first \in {"sambanova_start", "No SambaNova API key"} -> "sambanova"
       [] first \in {"openrouter_start", "No OpenRouter API key"} -> "openrouter"
       [] OTHER -> "none"

\* the strategy of a model id: 'auto-search', another key of the auto-mode table, a
\* 'gemini' prefix, a 'DeepSeek-' / 'gpt-oss-' prefix, anything else
StrategyOf(model) ==
  CASE model = "auto-search" -> "search"
    [] model \in DOMAIN AUTO_MODES -> "auto"
    [] model \in GeminiPrefixed -> "gemini"
    [] model \in SambaPatterned -> "sambanova"
    [] OTHER -> "openrouter"

\* the opening log entries of the strategies and direct callers
StartLogs == {"search_starting", "auto_start", "gemini_start", "sambanova_start",
              "openrouter_start"}

\* the router has entered the strategy of the model id, once, and returns its outcome
DispatchedTo(strategy) ==
  /\ EnteredStrategy = strategy
  /\ trace # <<>> => trace[1].ev = "log" /\ trace[1].kind \in StartLogs
  /\ strategy \in {"gemini", "sambanova", "openrouter"} =>
       /\ \A z \in 2..Len(trace) : ~(trace[z].ev = "log" /\ trace[z].kind \in StartLogs)
       /\ \A x \in ReqIdx : trace[x].kind = strategy /\ trace[x].model = input.model
       /\ strategy # "gemini" => NumReq <= 1
       /\ Resolved => outcome.text = ChunksOf(LastReq) /\ outcome.images = ImagesOf(LastReq)
  /\ strategy \in {"search", "auto"} =>
       \A z \in 2..Len(trace) :
         ~(trace[z].ev = "log" /\ trace[z].kind \in {"search_starting", "auto_start"})

\* C23: once generateResponse has been called, exactly the strategy of the model id has
\* been entered, once: Search Mode for 'auto-search', Auto Mode for another key of the
\* auto-mode table, the Gemini caller for a 'gemini' prefix, the SambaNova caller for a
\* 'DeepSeek-' / 'gpt-oss-' prefix and the OpenRouter caller for every other id; a direct
\* caller is not called again and its result is the result of the call.
C23_Dispatch ==
  pc # "init" => DispatchedTo(StrategyOf(input.model))

-----------------------------------------------------------------------------
\* Empty streams

\* the stream of the attempt at x ends at y and has delivered no text and no image
EndsEmpty(x, y) ==
  y \in TermIdx(x) /\ trace[y].kind = "done" /\ ~ContentBefore(x, y)

\* C24: an OpenRouter or SambaNova stream that ends without a text delta is the last
\* request of the call (direct, in Auto Mode or in Search Mode's fallback), which
\* resolves with empty text and an empty image list after the caller's 'OK' entry and
\* nothing else; a Gemini stream that ends without any content does not make the call
\* resolve: the attempt fails with 'Empty response from model', logged as a key failure.
C24_EmptyStream ==
  \A x \in ReqIdx : \A y \in TermIdx(x) :
    EndsEmpty(x, y) =>
      /\ trace[x].kind \in {"openrouter", "sambanova"} =>
           /\ IsLast(x)
           /\ Resolved
           /\ outcome.text = <<>>
           /\ outcome.images = <<>>
           /\ Len(trace) = y + 1
           /\ trace[y + 1] = Log("oai_ok", trace[x].model, 0, 0, 0, NoErr)
      /\ trace[x].kind = "gemini" =>
           /\ ~(IsLast(x) /\ Resolved)
           /\ Len(trace) > y
           /\ trace[y + 1] = Log("key_failed", trace[x].model, trace[x].key, trace[x].i,
                                 input.googleKeys, Plain("Empty response from model"))

\* the first of the four SambaNova candidates of Auto Mode ends its stream without a
\* delta, and the call resolves with empty text
C24_Witness ==
  /\ input.model = "auto-samba"
  /\ NumReq = 1
  /\ Len(auto.models) = 4
  /\ \E y \in TermIdx(LastReq) : EndsEmpty(LastReq, y)
  /\ Resolved
  /\ outcome.text = <<>>

\* a Gemini key ends its stream without content, and the call does not resolve
C24_WitnessGemini ==
  /\ DirectGemini
  /\ NumReq = 1
  /\ \E y \in TermIdx(LastReq) : EndsEmpty(LastReq, y)
  /\ RejectedWith(Plain("Empty response from model"))

-----------------------------------------------------------------------------
\* Termination and the number of requests

\* the number of requests the strategy of the call may issue: |keys| for a direct
\* Gemini call, |models| x |keys| for a Google Auto Mode, |models| for an OpenRouter or
\* SambaNova Auto Mode, 2 x |keys| + 3 + 1 for Search Mode (one for another direct call)
RequestBound ==
  CASE input.model = "auto-search" -> 2 * input.googleKeys + 3 + 1
    [] input.model \in InheritedKeys -> 0
    [] input.model = "auto-openrouter" -> input.openrouterModels
    [] isAutoMode(input.model) /\ isGoogleModel(input.model) ->
         Len(AUTO_MODES[input.model].models) * input.googleKeys
    [] isAutoMode(input.model) -> Len(AUTO_MODES[input.model].models)
    [] isGoogleModel(input.model) -> input.googleKeys
    [] OTHER -> 1

\* a request is issued only when the request before it has been answered or has failed
OneInFlight == \A x \in ReqIdx : ~IsLast(x) => TermIdx(x) # {}

\* C25: when every pending request settles and every stream ends, the call settles;
\* at every moment the requests issued so far are within the bound of the strategy, and
\* a request is issued only after the request before it has completed or failed.
C25_BoundedAndTerminates ==
  /\ [](NumReq <= RequestBound /\ OneInFlight)
  /\ <>Done

\* Search Mode with one Google key: two search requests, three SambaNova requests and
\* one OpenRouter request, the bound exactly, and the call has settled
C25_Witness ==
  /\ input.model = "auto-search"
  /\ input.googleKeys = 1
  /\ NumReq = 2 * input.googleKeys + 3 + 1
  /\ Done

-----------------------------------------------------------------------------
\* Google-backed Auto Mode

\* an Auto Mode over Gemini models (Search Mode, tagged 'google' too, is not one), with keys
GoogleAuto ==
  /\ input.model # "auto-search"
  /\ isAutoMode(input.model)
  /\ isGoogleModel(input.model)
  /\ input.googleKeys > 0

\* the requests sent for the candidate at position n of the list
ReqsOfModel(n) == { x \in ReqIdx : trace[x].n = n }

\* every key has been asked for candidate n and each has failed with a retryable error
AllKeysFailedRetryably(n) ==
  /\ Cardinality(ReqsOfModel(n)) = input.googleKeys
  /\ \A x \in ReqsOfModel(n) : FailedRetryably(x)

\* C26: in a Google-backed Auto Mode, when every key has failed with a retryable error
\* on a candidate that is not the last, the 'All N keys failed' error makes the chain go
\* on: the next request is for the next candidate, with the first key of a new shuffle
\* of all N keys, after exactly one 'failed, trying next...' entry; no candidate gets the
\* same key twice; and the call has settled only by a result, by a failure that does
\* not match the retryable pattern, by the fired signal, or with the terminal error
\* after the last candidate.
C26_AllKeysFailedIsRetryable ==
  GoogleAuto =>
    /\ \A x \in ReqIdx :
         (trace[x].i = input.googleKeys /\ trace[x].n < Len(auto.models)
            /\ AllKeysFailedRetryably(trace[x].n)) =>
            /\ ~IsLast(x)
            /\ trace[NextReq(x)].n = trace[x].n + 1
            /\ trace[NextReq(x)].i = 1
            /\ Cardinality({ z \in x..NextReq(x) :
                  trace[z] = Log("auto_next", trace[x].model, 0, trace[x].n, 0, NoErr) }) = 1
            /\ \E z \in x..NextReq(x) :
                  trace[z] = Log("gemini_start", trace[NextReq(x)].model, 0, 0,
                                 input.googleKeys, NoErr)
    /\ \A a, b \in ReqIdx : (a # b /\ trace[a].n = trace[b].n) => trace[a].key # trace[b].key
    /\ Done =>
         \/ Resolved
         \/ aborted
         \/ AutoAllFailed
         \/ NumReq >= 1 /\ Failed(LastReq) /\ ~isRetryableError(FailureAt(LastReq))

-----------------------------------------------------------------------------
\* Cancellation and provider errors

\* the attempt at x runs inside a catch that tells cancellations from other failures:
\* key rotation, the search loops, Auto Mode, the SambaNova loop of the fallback
InCatch(x) ==
  \/ trace[x].kind \in {"gemini", "search"}
  \/ route = "auto"
  \/ route = "fallback" /\ trace[x].kind = "sambanova"

\* the failure at y was raised again as it came: nothing was logged or tried after it
\* and the call has rejected with it.  (Search Mode raises a 'not supported' answer
\* again under a rule of its own.)
HandledAsCancellation(x, y) ==
  /\ InCatch(x)
  /\ FailsAt(x, y)
  /\ ~includesNotSupported(FailureOf(x, y))
  /\ y = Len(trace)
  /\ RejectedWith(FailureOf(x, y))

\* C27: a failure is handled as a cancellation (raised again without a failure log entry,
\* without another key or model and without the fallback) only when the signal has
\* fired; and while the signal has not fired, a provider error (error status or
\* in-stream error) that matches the retryable pattern is followed by a request to the
\* next key or model while one is left.
C27_CancellationOnlyBySignal ==
  \A x \in ReqIdx : \A y \in TermIdx(x) :
    /\ HandledAsCancellation(x, y) => aborted
    /\ (~aborted /\ FailsAt(x, y) /\ trace[y].kind \in {"http", "error"}
          /\ isRetryableError(FailureOf(x, y)) /\ CandidatesRemain(x)) => ~IsLast(x)

-----------------------------------------------------------------------------
\* Returned text and callbacks

\* position of the last onResetContent invocation (0: none)
LastReset ==
  LET resets == { z \in 1..Len(trace) : trace[z].ev = "reset" }
  IN IF resets = {} THEN 0 ELSE CHOOSE z \in resets : \A w \in resets : w <= z

\* the text deltas passed to onChunk after the last onResetContent invocation, in order
ChunksAfterLastReset ==
  LET got == SelectSeq(SubSeq(trace, LastReset + 1, Len(trace)), LAMBDA e : e.ev = "chunk")
  IN [k \in 1..Len(got) |-> got[k].tok]

\* C28: when a direct provider call or an Auto Mode call resolves, the returned text is
\* the sequence of the text deltas passed to onChunk after the last onResetContent
\* invocation of the call (after its start, where the callback was never invoked).
C28_TextIsChunksAfterReset ==
  (Resolved /\ input.model # "auto-search") => outcome.text = ChunksAfterLastReset

\* a direct Gemini call: the stream of the first key breaks after a delta with a reason
\* that matches the retryable pattern, the second key answers with one delta, and the
\* call returns the second delta only
C28_Witness ==
  /\ DirectGemini
  /\ Resolved
  /\ NumReq = 2
  /\ \E z \in ChunkIdx : z < LastReset
  /\ LastReset > LastReq
  /\ Len(outcome.text) = 1
  /\ outcome.text = ChunksOf(LastReq)

\* a direct OpenRouter call, where onResetContent is never invoked
C28_WitnessNoReset ==
  /\ input.model = "vendor/m1:free"
  /\ Resolved
  /\ LastReset = 0
  /\ Len(outcome.text) = 2

=============================================================================
